---- MODULE Spec2Model ----
(***************************************************************************)
(* A model of src/extractor.py: the roundup / story / article pipeline     *)
(* over its on-disk working directory.  Strings are sequences of           *)
(* one-character strings; a file extension (".html", ".err", ".json") is   *)
(* one token.  Every loop of the program advances one item per step, so    *)
(* that a run can be interrupted between items.                            *)
(***************************************************************************)
EXTENDS Naturals, Sequences, FiniteSets, TLC

(* ----------------------------- bounds --------------------------------- *)

\* The input space is checked in slices, each wide in one direction:
\*   Spec         two stories of one news item, up to MaxFaults irregular responses
\*   SpecArticles one story of MaxArticles news items, one irregular response
\*   SpecStories  MaxStories stories of one news item, no irregular response
\*   SpecLong     one story of LongList news items, no irregular response, no
\*                interrupted run
\*   SpecRuns     MaxStories stories of one news item, one irregular response, no
\*                interrupted run
\*   SpecListing  the roundup stage over a listing of MaxStories stories on page 0
\*                and one on page 1, which the site may drop; one irregular
\*                response
\*   SpecPartial  the roundup and story stages over MaxStories stories, with runs
\*                stopped in the middle of writing story.html
\*   SpecKey      the story stage over the indexes of two roundups whose urls
\*                have two or three path segments

\* irregular responses (a transport failure, a status other than 200, a page
\* the extraction cannot handle) the environment gives in one behaviour
MaxFaults == 1

\* the news items of the story page
MaxArticles == 2

\* the stories of the listing
MaxStories == 2

\* the news items of a story page with a two-digit index
LongList == 11

(* ----------------------- Python string helpers ------------------------ *)

Digits == <<"0", "1", "2", "3", "4", "5", "6", "7", "8", "9">>

\* str.isdigit() of one character
IsDigit(c) == \E k \in 1..10 : Digits[k] = c

\* the order of the characters the model uses: the code point, and for an
\* extension token (which starts with '.') the code point of its next letter too
Code(c) ==
    CASE c = "\t" -> 9 * 256
      [] c = "." -> 46 * 256
      [] c = ".err" -> 46 * 256 + 101
      [] c = ".html" -> 46 * 256 + 104
      [] c = ".json" -> 46 * 256 + 106
      [] c = "/" -> 47 * 256
      [] c = "=" -> 61 * 256
      [] IsDigit(c) -> (47 + (CHOOSE k \in 1..10 : Digits[k] = c)) * 256
      [] c = "a" -> 97 * 256
      [] c = "b" -> 98 * 256
      [] c = "o" -> 111 * 256
      [] c = "p" -> 112 * 256
      [] c = "r" -> 114 * 256
      [] c = "s" -> 115 * 256
      [] c = "t" -> 116 * 256
      [] c = "y" -> 121 * 256
      [] OTHER -> 127 * 256

\* Python's < on str: lexicographic by code point
RECURSIVE StrLess(_, _)
StrLess(s, t) ==
    IF t = <<>> THEN FALSE
    ELSE IF s = <<>> THEN TRUE
    ELSE IF Code(s[1]) # Code(t[1]) THEN Code(s[1]) < Code(t[1])
    ELSE StrLess(Tail(s), Tail(t))

\* str(i) for a natural number
RECURSIVE Str(_)
Str(i) == IF i < 10 THEN <<Digits[i + 1]>> ELSE Str(i \div 10) \o <<Digits[(i % 10) + 1]>>

\* int(s) for a string of digits
RECURSIVE Int(_)
Int(s) ==
    LET d == (CHOOSE k \in 1..10 : Digits[k] = s[Len(s)]) - 1
    IN  IF Len(s) = 1 THEN d ELSE 10 * Int(SubSeq(s, 1, Len(s) - 1)) + d

\* s.split(sep) for a one-character separator
RECURSIVE Split(_, _)
Split(s, sep) ==
    IF \A k \in 1..Len(s) : s[k] # sep THEN <<s>>
    ELSE LET p == CHOOSE k \in 1..Len(s) : s[k] = sep /\ \A m \in 1..(k - 1) : s[m] # sep
         IN  <<SubSeq(s, 1, p - 1)>> \o Split(SubSeq(s, p + 1, Len(s)), sep)

\* sep.join(parts)
RECURSIVE Join(_, _)
Join(parts, sep) ==
    IF parts = <<>> THEN <<>>
    ELSE IF Len(parts) = 1 THEN parts[1]
    ELSE parts[1] \o <<sep>> \o Join(Tail(parts), sep)

\* s.strip(): leading and trailing whitespace removed
RECURSIVE Strip(_)
Strip(s) ==
    IF s = <<>> THEN s
    ELSE IF s[1] = "\t" THEN Strip(Tail(s))
    ELSE IF s[Len(s)] = "\t" THEN Strip(SubSeq(s, 1, Len(s) - 1))
    ELSE s

\* s.endswith(suffix)
EndsWith(s, suffix) ==
    /\ Len(s) >= Len(suffix)
    /\ SubSeq(s, Len(s) - Len(suffix) + 1, Len(s)) = suffix

\* a variant of sorted that leaves the sequence as it is
Unsorted(xs) == xs

\* sorted(xs, key=...) over a sequence of [key, val] pairs: stable insertion by
\* Python's < on the keys
RECURSIVE SortByKey(_)
SortByKey(xs) ==
    IF xs = <<>> THEN <<>>
    ELSE LET rest == SortByKey(SubSeq(xs, 1, Len(xs) - 1))
             x    == xs[Len(xs)]
             \* x goes after every element whose key is not greater than its own
             n    == Cardinality({k \in 1..Len(rest) : ~StrLess(x.key, rest[k].key)})
         IN  SubSeq(rest, 1, n) \o <<x>> \o SubSeq(rest, n + 1, Len(rest))

Reverse(xs) == [k \in 1..Len(xs) |-> xs[Len(xs) + 1 - k]]

\* the elements of a set of strings in ascending order
RECURSIVE SetToSeq(_)
SetToSeq(S) ==
    IF S = {} THEN <<>>
    ELSE LET m == CHOOSE x \in S : \A y \in S : ~StrLess(y, x)
         IN  <<m>> \o SetToSeq(S \ {m})

(* ------------------------------ the web ------------------------------- *)

TAB == "\t"
Letters == <<"a", "b", "o", "p", "r", "t", "y">>

\* the k-th story of the site: its url "/s/<slug>" and its date; later
\* stories of the listing are not later in time
SiteUrl(k) == <<"/", "s", "/", Letters[k]>>
SiteDate(k) == IF k % 2 = 1 THEN <<"1", "0">> ELSE <<"0", "9">>

\* a listing row is its cells <<title, url, topic, date>>; a header row has none
HeaderRow == <<>>
Row(k) == <<<<Letters[k]>>, SiteUrl(k), (IF k % 2 = 1 THEN <<>> ELSE <<"t">>), SiteDate(k)>>
RowUndated == <<<<"a">>, SiteUrl(1), <<"t">>, <<>>>>

\* the listing of a site of n stories: they are on page 0, and page 1 has a
\* row without a date
Site(n) == <<<<HeaderRow>> \o [k \in 1..n |-> Row(k)], <<HeaderRow, RowUndated>>>>

\* the href of the "Go to last page" control for last page n
LastPageHref(n) == <<"p", "=">> \o Str(n)

\* the story page of a url: kind "ok" carries n news items inside its
\* featured-coverage container, "nocoverage" has no such container,
\* "malformed" lacks the title
StoryPage(url, kind, n) == [kind |-> kind, n |-> n, h1 |-> url]

VARIABLES
    world,          \* the environment: the stories of the site, the length of their
                    \* article lists, the irregular responses it may give, the
                    \* order os.listdir gives, and whether the listing has a
                    \* dated row on its page 1 and may lose that page
    roundupFiles,   \* <output>/roundups/: file name -> page text
    tsv,            \* <output>/roundups.tsv
    storyRoot,      \* whether <output>/story/ exists
    story,          \* <output>/story/: directory name -> (file name -> content)
    jsonl,          \* <output>/allsides.jsonl
    pc,             \* the stage function that is running, or "idle"
    flags,          \* the running stage's redownload and retry_errors arguments
    cur,            \* the running loop's position
    net,            \* network requests issued by the current (or last) run
    io,             \* what the last step got from the network: "none" (it issued
                    \* no request), "page", "status" or "exception"
    faults,         \* irregular responses given so far
    last,           \* the current (or last) run: its stage and how it ended
    rep,            \* how the current (or last) run relates to the run before it
    slept,          \* whether time.sleep(delay) was called since the last
                    \* request of the run (TRUE while it has issued none)
    failed          \* whether a request of the current (or last) run ended in
                    \* a status other than 200 or in an exception

vars == <<world, roundupFiles, tsv, storyRoot, story, jsonl, pc, flags, cur, net, io, faults, last,
          rep, slept, failed>>
disk == <<roundupFiles, tsv, storyRoot, story, jsonl>>

NoFlags == [redownload |-> FALSE, retry_errors |-> FALSE]
NoFile == [exists |-> FALSE, lines |-> <<>>]
File(lines) == [exists |-> TRUE, lines |-> lines]

\* os.listdir: the names in an order the file system chooses
Listdir(names) == IF world.rev THEN Reverse(SetToSeq(names)) ELSE SetToSeq(names)

\* f with file `name` written (created or replaced)
WriteFile(f, name, content) ==
    [n \in DOMAIN f \cup {name} |-> IF n = name THEN content ELSE f[n]]

(* -------------------------- run bookkeeping --------------------------- *)

RetryOnly == [redownload |-> FALSE, retry_errors |-> TRUE]

\* "repeat": a run without mode modifiers right after a completed run of the
\* same stage; "resume": one right after an interrupted run of the same stage;
\* "retry": a run with retry_errors alone; "reretry": one right after a
\* completed run with retry_errors alone in which no request failed
Rep(stage, fl) ==
    IF fl = NoFlags /\ last.stage = stage /\ last.result = "done" THEN "repeat"
    ELSE IF fl = NoFlags /\ last.stage = stage /\ last.result = "interrupted" THEN "resume"
    ELSE IF fl = RetryOnly /\ last.stage = stage /\ last.result = "done"
            /\ rep \in {"retry", "reretry"} /\ ~failed THEN "reretry"
    ELSE IF fl = RetryOnly THEN "retry"
    ELSE "first"

\* a stage function is entered with n items to loop over
StartRun(stage, fl, n) ==
    /\ pc = "idle"
    /\ net' = 0
    /\ io' = "none"
    /\ slept' = TRUE
    /\ failed' = FALSE
    /\ cur' = [i |-> 1, j |-> 0]
    /\ IF n = 0
       THEN /\ pc' = "idle"
            /\ flags' = NoFlags
            /\ rep' = Rep(stage, fl)
            /\ last' = [stage |-> stage, result |-> "done"]
       ELSE /\ pc' = stage
            /\ flags' = fl
            /\ rep' = Rep(stage, fl)
            /\ last' = [stage |-> stage, result |-> "running"]

\* a stage function is entered and raises before its loop
FailedStart(stage) ==
    /\ pc = "idle"
    /\ last' = [stage |-> stage, result |-> "aborted"]
    /\ io' = "none"
    /\ net' = 0
    /\ slept' = TRUE
    /\ failed' = FALSE
    /\ rep' = "first"
    /\ UNCHANGED <<pc, flags, cur>>

\* the process ends: normally ("done"), by an exception that escapes
\* ("aborted") or by being stopped ("interrupted")
Finish(result) ==
    /\ pc' = "idle"
    /\ flags' = NoFlags
    /\ cur' = [i |-> 1, j |-> 0]
    /\ last' = [stage |-> pc, result |-> result]
    /\ rep' = rep

\* the step got `got` from the network, and then called time.sleep(delay) or
\* not
Request(got, sleeps) ==
    /\ io' = got
    /\ net' = IF got = "none" THEN net ELSE net + 1
    /\ slept' = IF got = "none" THEN slept ELSE sleeps
    /\ failed' = (failed \/ got \in {"status", "exception"})

\* the step got `got` from the network and did not sleep
Net(got) == Request(got, FALSE)

\* an exception escapes the stage function
Abort == Finish("aborted")

\* the loop over n items moves past item cur.i
Advance(n) ==
    IF cur.i >= n THEN Finish("done")
    ELSE /\ cur' = [cur EXCEPT !.i = cur.i + 1]
         /\ UNCHANGED <<pc, flags, last, rep>>

\* an irregular response is drawn from the environment's budget
Fault == faults < world.budget /\ faults' = faults + 1
NoFault == faults' = faults

(* ----------------------- stage 1: the roundups ------------------------- *)

\* requests.post(roundup_url(i)).text, of which the model keeps the rows
PageRows(i) ==
    (IF i < Len(Site(world.stories)) THEN Site(world.stories)[i + 1] ELSE <<HeaderRow>>)
    \o (IF i = 1 /\ world.tail THEN <<Row(world.stories + 1)>> ELSE <<>>)
PageText(i) == [rows |-> PageRows(i)]

\* the href of the control of page 0: the site's last page at the time of
\* the request
LastPageHrefs ==
    {LastPageHref(Len(Site(world.stories)) - 1)}
    \cup (IF world.tail THEN {LastPageHref(0)} ELSE {})

\* a variant of line 32 in which a page without the control counts as the
\* last page
LastPageZero ==
    /\ cur' = [i |-> 2, j |-> 0]
    /\ UNCHANGED <<pc, flags, last, rep>>

\* line 32 when no link of page 0 had the title: last_page is unbound and
\* UnboundLocalError escapes
UnboundLastPage == Abort

StartRoundups == StartRun("roundups", NoFlags, 1) /\ UNCHANGED <<world, disk, faults>>

\* lines 20-29: page 0 is fetched and written, then searched for the last page
RoundupFirst ==
    /\ pc = "roundups" /\ cur.i = 1
    /\ UNCHANGED <<world, tsv, storyRoot, story, jsonl>>
    /\ \/ \* requests.post raises
          /\ Fault /\ Net("exception") /\ Abort
          /\ UNCHANGED roundupFiles
       \/ \* no "Go to last page" link: last_page is unbound at line 32
          /\ Fault /\ Net("page") /\ UnboundLastPage
          /\ roundupFiles' = WriteFile(roundupFiles, Str(0), PageText(0))
       \/ \E href \in LastPageHrefs :
             /\ NoFault /\ Net("page")
             /\ roundupFiles' = WriteFile(roundupFiles, Str(0), PageText(0))
             /\ cur' = [i |-> 2, j |-> Int(Split(href, "=")[2])]
             /\ UNCHANGED <<pc, flags, last, rep>>

\* lines 32-36: pages 1..last_page
RoundupPage ==
    /\ pc = "roundups" /\ cur.i >= 2 /\ cur.i <= cur.j + 1
    /\ UNCHANGED <<world, tsv, storyRoot, story, jsonl>>
    /\ \/ /\ Fault /\ Net("exception") /\ Abort
          /\ UNCHANGED roundupFiles
       \/ \* line 36: time.sleep(delay)
          /\ NoFault /\ Request("page", TRUE)
          /\ roundupFiles' = WriteFile(roundupFiles, Str(cur.i - 1), PageText(cur.i - 1))
          /\ cur' = [cur EXCEPT !.i = cur.i + 1]
          /\ UNCHANGED <<pc, flags, last, rep>>

\* parse_roundup: one tuple per row that has cells
ParseRoundup(text) == SelectSeq(text.rows, LAMBDA r : Len(r) # 0)

RECURSIVE ParseFiles(_)
ParseFiles(names) ==
    IF names = <<>> THEN <<>>
    ELSE ParseRoundup(roundupFiles[names[1]]) \o ParseFiles(Tail(names))

\* parse_roundups: every file of the directory, undated rows dropped, by date
ParseRoundups ==
    LET all   == ParseFiles(Listdir(DOMAIN roundupFiles))
        dated == SelectSeq(all, LAMBDA r : r[4] # <<>>)
        done  == SortByKey([k \in 1..Len(dated) |-> [key |-> dated[k][4], val |-> dated[k]]])
    IN  [k \in 1..Len(done) |-> done[k].val]

\* process_roundups, lines 267-270: the index is written after the downloads
RoundupIndex ==
    /\ pc = "roundups" /\ cur.i >= 2 /\ cur.i > cur.j + 1
    /\ tsv' = File([k \in 1..Len(ParseRoundups) |-> Join(ParseRoundups[k], TAB)])
    /\ Net("none")
    /\ Finish("done")
    /\ UNCHANGED <<world, roundupFiles, storyRoot, story, jsonl, faults>>

(* ------------------------ stage 2: the stories ------------------------- *)

StoryHtml == <<"s", "t", "o", "r", "y", ".html">>
StoryJson == <<"s", "t", "o", "r", "y", ".json">>
EmptyDir == [n \in {} |-> 0]

\* read_roundups: the fields of every line of roundups.tsv
ReadRoundups == [k \in 1..Len(tsv.lines) |-> Split(Strip(tsv.lines[k]), TAB)]

\* Roundup(*fields) takes exactly four fields
RoundupsOk == tsv.exists /\ \A k \in 1..Len(ReadRoundups) : Len(ReadRoundups[k]) = 4

\* line 93: f"{r.date}.{r.url.split('/')[2]}"
StoryDirName(r) == r[4] \o <<".">> \o Split(r[2], "/")[3]

\* os.makedirs(dir, exist_ok=True)
\* a directory created anew, whatever was there
MakeDirFresh(st, dir) == WriteFile(st, dir, EmptyDir)

MakeDir(st, dir) == IF dir \in DOMAIN st THEN st ELSE WriteFile(st, dir, EmptyDir)

\* the pages the site may serve for a story: the regular one, with its list
\* of news items, and the irregular ones
RegularStoryPages(url) == {StoryPage(url, "ok", world.counts)}
IrregularStoryPages(url) == {StoryPage(url, "nocoverage", 0), StoryPage(url, "malformed", 0)}

\* main, lines 300-302: the index is read, then download_stories is entered
StartStories ==
    /\ UNCHANGED <<world, roundupFiles, tsv, story, jsonl, faults>>
    /\ \E rd \in BOOLEAN :
        LET fl == [redownload |-> rd, retry_errors |-> FALSE] IN
        IF RoundupsOk
        THEN \* line 89: os.makedirs(story_dir, exist_ok=True)
             /\ storyRoot' = TRUE
             /\ StartRun("stories", fl, Len(ReadRoundups))
        ELSE \* line 82 or 84 raises
             /\ storyRoot' = storyRoot
             /\ FailedStart("stories")

\* download_stories, lines 91-101, for one roundup
StoryStep ==
    /\ pc = "stories"
    /\ UNCHANGED <<world, roundupFiles, tsv, storyRoot, jsonl>>
    /\ LET r   == ReadRoundups[cur.i]
           dir == StoryDirName(r)
           st  == MakeDir(story, dir)
       IN  IF flags.redownload \/ StoryHtml \notin DOMAIN st[dir]
           THEN \/ \* requests.get raises
                   /\ Fault /\ Net("exception") /\ Abort
                   /\ story' = st
                \/ \E page \in RegularStoryPages(r[2]) \cup IrregularStoryPages(r[2]) :
                      /\ IF page \in RegularStoryPages(r[2]) THEN NoFault ELSE Fault
                      /\ \* line 101: time.sleep(delay)
                         Request("page", TRUE)
                      /\ story' = [st EXCEPT ![dir] = WriteFile(st[dir], StoryHtml, page)]
                      /\ Advance(Len(ReadRoundups))
           ELSE /\ story' = st
                /\ UNCHANGED faults
                /\ Net("none")
                /\ Advance(Len(ReadRoundups))

\* lines 99-100 stopped between open(story_file, "w") and the end of the
\* write: the page was received, and story.html holds a part of it
InterruptStoryWrite ==
    /\ pc = "stories"
    /\ UNCHANGED <<world, roundupFiles, tsv, storyRoot, jsonl>>
    /\ LET r   == ReadRoundups[cur.i]
           dir == StoryDirName(r)
           st  == MakeDir(story, dir)
       IN  /\ flags.redownload \/ StoryHtml \notin DOMAIN st[dir]
           /\ NoFault /\ Net("page")
           /\ story' = [st EXCEPT ![dir] =
                           WriteFile(st[dir], StoryHtml, StoryPage(r[2], "truncated", 0))]
           /\ Finish("interrupted")

\* a stage function that starts with os.listdir(story_dir) is entered: the
\* call raises when the directory does not exist
StartListing(stage, fl, n) ==
    IF storyRoot THEN StartRun(stage, fl, n) ELSE FailedStart(stage)

\* Article(title, side, source, url) of the k-th news item of a story page
Article(k) == [title |-> k, side |-> k, source |-> k, url |-> k]

\* parse_story_html on a page with its featured-coverage container
StoryOf(page) ==
    [title |-> page.h1, tags |-> "tags", summary |-> "summary",
     articles |-> [k \in 1..page.n |-> Article(k - 1)]]

StoryDirs == Listdir(DOMAIN story)

\* a variant of the test of line 121 that finds a container in every page
CoverageFound(page) == FALSE

\* lines 119-121: coverage is None
CoverageIsNone(page) == page.kind = "nocoverage"

StartParseStories ==
    /\ StartListing("parse_stories", NoFlags, Len(StoryDirs))
    /\ UNCHANGED <<world, disk, faults>>

\* parse_all_stories, lines 145-159, for one directory
ParseStoryStep ==
    /\ pc = "parse_stories"
    /\ UNCHANGED <<world, roundupFiles, tsv, storyRoot, jsonl, faults>>
    /\ LET dir == StoryDirs[cur.i] IN
       IF StoryJson \in DOMAIN story[dir]
       THEN UNCHANGED story /\ Net("none") /\ Advance(Len(StoryDirs))
       ELSE IF StoryHtml \notin DOMAIN story[dir]
       THEN \* line 105: open raises
            UNCHANGED story /\ Net("none") /\ Abort
       ELSE IF story[dir][StoryHtml].kind = "malformed"
       THEN \* line 108: soup.find("h1") is None
            UNCHANGED story /\ Net("none") /\ Abort
       ELSE IF CoverageIsNone(story[dir][StoryHtml])
       THEN \* lines 121-123, 151-153: skipped
            UNCHANGED story /\ Net("none") /\ Advance(Len(StoryDirs))
       ELSE /\ story' = [story EXCEPT ![dir] =
                            WriteFile(story[dir], StoryJson, StoryOf(story[dir][StoryHtml]))]
            /\ Net("none") /\ Advance(Len(StoryDirs))

(* ------------------------ stage 3: the articles ------------------------ *)

HtmlFile(idx) == Str(idx) \o <<".html">>
ErrFile(idx) == Str(idx) \o <<".err">>

\* lines 164-169: the (directory, idx) pairs download_articles loops over
RECURSIVE ArticleItemsOf(_)
ArticleItemsOf(dirs) ==
    IF dirs = <<>> THEN <<>>
    ELSE LET dir == dirs[1] IN
         (IF StoryJson \in DOMAIN story[dir]
          THEN [k \in 1..Len(story[dir][StoryJson].articles) |-> [dir |-> dir, idx |-> k - 1]]
          ELSE <<>>) \o ArticleItemsOf(Tail(dirs))

ArticleItems == ArticleItemsOf(StoryDirs)

\* two variants of the condition of lines 172-174, against which the
\* properties of the fetch stage are tested: one that does not look at the
\* error marker, one that does not look at the fetched page
ShouldFetchIgnoringErr(fl, hasHtml, hasErr) ==
    \/ fl.redownload
    \/ (fl.retry_errors /\ hasErr)
    \/ ~hasHtml

ShouldFetchIgnoringHtml(fl, hasHtml, hasErr) ==
    \/ fl.redownload
    \/ (fl.retry_errors /\ hasErr)
    \/ ~hasErr

\* lines 172-174: whether the article is requested
ShouldFetch(fl, hasHtml, hasErr) ==
    \/ fl.redownload
    \/ (fl.retry_errors /\ hasErr)
    \/ (~hasHtml /\ ~hasErr)

StartArticles ==
    /\ \E rd \in BOOLEAN, re \in BOOLEAN :
          StartListing("articles", [redownload |-> rd, retry_errors |-> re], Len(ArticleItems))
    /\ UNCHANGED <<world, disk, faults>>

\* what requests.get gives for an article: a page content extraction can
\* handle (the regular case), one it cannot, a status other than 200, an
\* exception
ArticleOutcomes == {"page", "badpage", "status", "exception"}

\* the marker written and the other marker of the article removed
ReplaceMarker(d, name, other, content) ==
    [n \in (DOMAIN d \ {other}) \cup {name} |-> IF n = name THEN content ELSE d[n]]

\* lines 177-188: the marker of the outcome is opened for writing; the other
\* marker of the article is not touched
WriteMarker(d, name, other, content) == WriteFile(d, name, content)

\* download_articles, lines 169-188, for one article
ArticleStep ==
    /\ pc = "articles"
    /\ UNCHANGED <<world, roundupFiles, tsv, storyRoot, jsonl>>
    /\ LET it  == ArticleItems[cur.i]
           dir == it.dir
           url == story[dir][StoryJson].articles[it.idx + 1].url
       IN  IF ShouldFetch(flags, HtmlFile(it.idx) \in DOMAIN story[dir],
                          ErrFile(it.idx) \in DOMAIN story[dir])
           THEN /\ \E out \in ArticleOutcomes :
                     /\ IF out = "page" THEN NoFault ELSE Fault
                     /\ Net(IF out = "badpage" THEN "page" ELSE out)
                     /\ story' = [story EXCEPT ![dir] =
                          IF out \in {"page", "badpage"}
                          THEN WriteMarker(story[dir], HtmlFile(it.idx), ErrFile(it.idx),
                                           [url |-> url, good |-> (out = "page")])
                          ELSE WriteMarker(story[dir], ErrFile(it.idx), HtmlFile(it.idx), out)]
                /\ Advance(Len(ArticleItems))
           ELSE /\ UNCHANGED <<faults, story>>
                /\ Net("none")
                /\ Advance(Len(ArticleItems))

\* parse_article: the extraction of a page
ParseArticle(html) ==
    [title |-> html.url, text |-> html.url, top_image |-> html.url, images |-> html.url]

\* lines 206-209: the (directory, file) pairs parse_all_articles works on
HtmlFilesOf(dir) ==
    SelectSeq(Listdir(DOMAIN story[dir]),
              LAMBDA f : IsDigit(f[1]) /\ EndsWith(f, <<".html">>))

RECURSIVE ParseItemsOf(_)
ParseItemsOf(dirs) ==
    IF dirs = <<>> THEN <<>>
    ELSE LET dir == dirs[1]
             fs  == HtmlFilesOf(dir)
         IN  [k \in 1..Len(fs) |-> [dir |-> dir, f |-> fs[k]]] \o ParseItemsOf(Tail(dirs))

ParseItems == ParseItemsOf(StoryDirs)

StartParseArticles ==
    /\ StartListing("parse_articles", NoFlags, Len(ParseItems))
    /\ UNCHANGED <<world, disk, faults>>

\* line 211 and line 217: f"{story_dir}/{story}/{f[0]}.json"
OutputFile(f) == <<f[1], ".json">>

\* parse_all_articles, lines 208-223, for one raw page.  A failed extraction
\* reaches line 222, which opens the path "f{story_dir}/{story}/{idx}.err" (a
\* plain string, not an f-string) for appending: no stage creates its
\* directory, so open raises inside the handler and the exception escapes
ParseArticleStep ==
    /\ pc = "parse_articles"
    /\ UNCHANGED <<world, roundupFiles, tsv, storyRoot, jsonl, faults>>
    /\ LET it   == ParseItems[cur.i]
           html == story[it.dir][it.f]
       IN  IF OutputFile(it.f) \in DOMAIN story[it.dir]
           THEN UNCHANGED story /\ Net("none") /\ Advance(Len(ParseItems))
           ELSE IF html.good
           THEN /\ story' = [story EXCEPT ![it.dir] =
                               WriteFile(story[it.dir], OutputFile(it.f), ParseArticle(html))]
                /\ Net("none") /\ Advance(Len(ParseItems))
           ELSE UNCHANGED story /\ Net("none") /\ Abort

(* ------------------------- stage 4: the dataset ------------------------ *)

\* lines 238-246: the extraction artifacts of a directory by int(f[0]); a
\* later file of the listing replaces an earlier one with the same key
JsonFilesOf(dir) ==
    SelectSeq(Listdir(DOMAIN story[dir]),
              LAMBDA f : IsDigit(f[1]) /\ EndsWith(f, <<".json">>))

ArticlesOf(dir, includeImages) ==
    LET fs   == JsonFilesOf(dir)
        keys == {Int(<<fs[k][1]>>) : k \in 1..Len(fs)}
        lastOf(n) == CHOOSE k \in 1..Len(fs) :
                        /\ Int(<<fs[k][1]>>) = n
                        /\ \A m \in (k + 1)..Len(fs) : Int(<<fs[m][1]>>) # n
        a(n) == story[dir][fs[lastOf(n)]]
    IN  [n \in keys |->
            IF includeImages THEN a(n)
            ELSE [title |-> a(n).title, text |-> a(n).text]]

\* lines 249-252: story_metadata[art_no] raises when the list is too short
MergeOk(dir, includeImages) ==
    \A n \in DOMAIN ArticlesOf(dir, includeImages) :
        n + 1 <= Len(story[dir][StoryJson].articles)

\* lines 249-255: the record of one story directory
Merged(a, ref) ==
    [art |-> a, side |-> ref.side, source |-> ref.source, url |-> ref.url]

RecordOf(dir, includeImages) ==
    LET j    == story[dir][StoryJson]
        arts == ArticlesOf(dir, includeImages)
    IN  [title |-> j.title, tags |-> j.tags, summary |-> j.summary,
         articles |-> [n \in DOMAIN arts |-> Merged(arts[n], j.articles[n + 1])],
         date |-> Split(dir, ".")[1]]

\* two variants of compile_dataset, against which the properties of the
\* dataset are tested: one that keeps the stories without articles (no line
\* 257), one that returns the records as listed (no sorted at line 259)
RECURSIVE DataOfAll(_, _)
DataOfAll(dirs, includeImages) ==
    IF dirs = <<>> THEN <<>>
    ELSE LET dir == dirs[1] IN
         (IF StoryJson \in DOMAIN story[dir]
          THEN <<RecordOf(dir, includeImages)>>
          ELSE <<>>) \o DataOfAll(Tail(dirs), includeImages)

AsListed(data) == data

\* lines 228-258: the records in the order of the listing
RECURSIVE DataOf(_, _)
DataOf(dirs, includeImages) ==
    IF dirs = <<>> THEN <<>>
    ELSE LET dir == dirs[1] IN
         (IF StoryJson \in DOMAIN story[dir]
             /\ Cardinality(DOMAIN ArticlesOf(dir, includeImages)) > 0
          THEN <<RecordOf(dir, includeImages)>>
          ELSE <<>>) \o DataOf(Tail(dirs), includeImages)

\* line 259
SortedData(data) ==
    LET done == SortByKey([k \in 1..Len(data) |-> [key |-> data[k].date, val |-> data[k]]])
    IN  [k \in 1..Len(done) |-> done[k].val]

CompileDataset(includeImages) == SortedData(DataOf(StoryDirs, includeImages))

CompileOk(includeImages) ==
    \A k \in 1..Len(StoryDirs) :
        StoryJson \in DOMAIN story[StoryDirs[k]] => MergeOk(StoryDirs[k], includeImages)

\* main, lines 310-315: compile_dataset(story_dir), then allsides.jsonl
Compile ==
    /\ UNCHANGED <<world, roundupFiles, tsv, storyRoot, story, faults>>
    /\ IF storyRoot /\ CompileOk(TRUE)
       THEN /\ StartRun("compile", NoFlags, 0)
            /\ jsonl' = File(CompileDataset(TRUE))
       ELSE /\ FailedStart("compile")
            /\ jsonl' = jsonl

\* the process is stopped between two steps
Interrupt ==
    /\ pc # "idle"
    /\ Finish("interrupted")
    /\ Net("none")
    /\ UNCHANGED <<world, disk, faults>>

(* --------------------------- specification ---------------------------- *)

World(stories, counts, budget) ==
    [stories : {stories}, counts : {counts}, budget : {budget}, rev : BOOLEAN, tail : {FALSE}]

InitDisk ==
    /\ roundupFiles = EmptyDir
    /\ tsv = NoFile
    /\ storyRoot = FALSE
    /\ story = EmptyDir
    /\ jsonl = NoFile

InitControl ==
    /\ pc = "idle"
    /\ flags = NoFlags
    /\ cur = [i |-> 1, j |-> 0]
    /\ net = 0
    /\ io = "none"
    /\ faults = 0
    /\ last = [stage |-> "none", result |-> "none"]
    /\ rep = "first"
    /\ slept = TRUE
    /\ failed = FALSE

Init == world \in World(2, 1, MaxFaults) /\ InitDisk /\ InitControl
InitArticles == world \in World(1, MaxArticles, 1) /\ InitDisk /\ InitControl
InitStories == world \in World(MaxStories, 1, 0) /\ InitDisk /\ InitControl
InitLong == world \in World(1, LongList, 0) /\ InitDisk /\ InitControl

\* the steps of the stage functions
Run ==
    \/ StartRoundups
    \/ RoundupFirst
    \/ RoundupPage
    \/ RoundupIndex
    \/ StartStories
    \/ StoryStep
    \/ StartParseStories
    \/ ParseStoryStep
    \/ StartArticles
    \/ ArticleStep
    \/ StartParseArticles
    \/ ParseArticleStep
    \/ Compile

Next == Run \/ Interrupt

Spec == Init /\ [][Next]_vars
SpecArticles == InitArticles /\ [][Next]_vars
SpecStories == InitStories /\ [][Next]_vars
\* the runs of the long story are left to finish
SpecLong == InitLong /\ [][Run]_vars
InitRuns == world \in World(MaxStories, 1, 1) /\ InitDisk /\ InitControl
SpecRuns == InitRuns /\ [][Run]_vars

InitListing ==
    /\ world \in [stories : {MaxStories}, counts : {1}, budget : {1}, rev : BOOLEAN, tail : {TRUE}]
    /\ InitDisk /\ InitControl
NextListing == StartRoundups \/ RoundupFirst \/ RoundupPage \/ RoundupIndex \/ Interrupt
SpecListing == InitListing /\ [][NextListing]_vars

InitPartial == world \in World(MaxStories, 1, 0) /\ InitDisk /\ InitControl
NextPartial ==
    \/ StartRoundups
    \/ RoundupFirst
    \/ RoundupPage
    \/ RoundupIndex
    \/ StartStories
    \/ StoryStep
    \/ Interrupt
    \/ InterruptStoryWrite
SpecPartial == InitPartial /\ [][NextPartial]_vars

\* the roundups of a listing whose story urls have two or three path
\* segments, and the working directory a roundup run leaves for a one-page
\* listing of two of them
KeyUrls == {<<"/", "s", "/", "a">>, <<"/", "s", "/", "b">>, <<"/", "s", "/", "a", "/", "b">>}
KeyRows == {<<<<"a">>, url, <<"t">>, date>> : url \in KeyUrls, date \in {SiteDate(1), SiteDate(2)}}
InitKey ==
    /\ world \in World(2, 1, 0)
    /\ \E r1 \in KeyRows, r2 \in KeyRows :
          /\ r1 # r2
          /\ ~StrLess(r2[4], r1[4])
          /\ roundupFiles = WriteFile(EmptyDir, Str(0), [rows |-> <<HeaderRow, r1, r2>>])
          /\ tsv = File(<<Join(r1, TAB), Join(r2, TAB)>>)
    /\ storyRoot = FALSE
    /\ story = EmptyDir
    /\ jsonl = NoFile
    /\ InitControl
NextKey == StartStories \/ StoryStep \/ Interrupt
SpecKey == InitKey /\ [][NextKey]_vars

(* ------------------------- article fetch markers ----------------------- *)

\* the mode of an article-fetch run
Mode(fl) ==
    IF fl.redownload THEN "forceRefetch"
    ELSE IF fl.retry_errors THEN "retryErrors"
    ELSE "normal"

\* the article the article-fetch loop is at, and its markers on disk
CurArticle == ArticleItems[cur.i]
CurHasHtml == HtmlFile(CurArticle.idx) \in DOMAIN story[CurArticle.dir]
CurHasErr == ErrFile(CurArticle.idx) \in DOMAIN story[CurArticle.dir]

\* the skip rule as stated for the article-fetch stage
StatedSkip(mode, hasHtml, hasErr) ==
    \/ (hasHtml /\ mode # "forceRefetch")
    \/ (hasErr /\ mode \notin {"forceRefetch", "retryErrors"})

\* C1: in download_articles, for every article and every combination of
\* (idx.html exists, idx.err exists, mode), the network call is skipped exactly
\* when (idx.html exists and the mode is not forceRefetch) or (idx.err exists
\* and the mode is neither forceRefetch nor retryErrors), the states where both
\* markers exist included.
C1_SkipLogic ==
    [][ArticleStep =>
          ((io' = "none") <=> StatedSkip(Mode(flags), CurHasHtml, CurHasErr))]_vars

\* C2: for every story and article index at most one of idx.html and idx.err
\* exists, in every state reachable by article-fetch runs in any modes with any
\* outcomes.
C2_MutualExclusion ==
    \A dir \in DOMAIN story : \A idx \in 0..world.counts :
        ~(HtmlFile(idx) \in DOMAIN story[dir] /\ ErrFile(idx) \in DOMAIN story[dir])

(* ------------------------- repeated and resumed runs ------------------- *)

\* a step of a run without mode modifiers that follows a completed run of the
\* same stage: a step of its loop, or the whole run when it has no loop
RepeatStep ==
    \/ (pc # "idle" /\ rep = "repeat")
    \/ (pc = "idle" /\ pc' = "idle" /\ rep' = "repeat")

\* the step issues no request and leaves the working directory as it is
Quiet == io' = "none" /\ disk' = disk

\* C3 as stated: for each stage, roundup collection included, a second run
\* with no mode modifiers on the state left by a completed first run performs
\* no network call and leaves the on-disk state identical.
C3_Idempotence == [][RepeatStep => Quiet]_vars

\* C3 amended: for each stage other than roundup collection (story fetch, story
\* extraction, article fetch, article extraction, compile), a second run with
\* no mode modifiers on the state left by a completed first run performs no
\* network call and leaves the on-disk state identical.
C3_IdempotenceExceptRoundups ==
    [][(RepeatStep /\ last'.stage # "roundups") => Quiet]_vars

\* an article-fetch run was repeated over a story with a fetched page and an
\* error marker, and is over
C3_Witness ==
    /\ pc = "idle" /\ rep = "repeat"
    /\ last = [stage |-> "articles", result |-> "done"]
    /\ \E dir \in DOMAIN story :
          /\ HtmlFile(0) \in DOMAIN story[dir]
          /\ ErrFile(1) \in DOMAIN story[dir]
          /\ HtmlFile(1) \notin DOMAIN story[dir]

\* C4: when a story-fetch or article-fetch run is interrupted and the stage is
\* restarted in normal mode, the restarted run issues no request for a story
\* that has story.html or an article that has idx.html or idx.err, issues one
\* for every story and article without an artifact, and when it completes
\* every item has an artifact.
C4_Resume ==
    [][rep = "resume" =>
         /\ StoryStep =>
              LET dir == StoryDirName(ReadRoundups[cur.i])
              IN  (io' # "none") <=> ~(dir \in DOMAIN story /\ StoryHtml \in DOMAIN story[dir])
         /\ ArticleStep => ((io' # "none") <=> (~CurHasHtml /\ ~CurHasErr))
         /\ (pc = "stories" /\ last'.result = "done") =>
              \A k \in 1..Len(ReadRoundups) :
                  LET dir == StoryDirName(ReadRoundups[k])
                  IN  dir \in DOMAIN story' /\ StoryHtml \in DOMAIN story'[dir]
         /\ (pc = "articles" /\ last'.result = "done") =>
              \A k \in 1..Len(ArticleItems) :
                  LET it == ArticleItems[k]
                  IN  \/ HtmlFile(it.idx) \in DOMAIN story'[it.dir]
                      \/ ErrFile(it.idx) \in DOMAIN story'[it.dir]
      ]_vars

\* a restarted article-fetch run has completed, having requested one article
\* and skipped the others
C4_Witness ==
    /\ pc = "idle" /\ rep = "resume"
    /\ last = [stage |-> "articles", result |-> "done"]
    /\ net = 1
    /\ \E dir \in DOMAIN story : \A idx \in 0..(world.counts - 1) :
          HtmlFile(idx) \in DOMAIN story[dir] \/ ErrFile(idx) \in DOMAIN story[dir]

(* ------------------------------ failures ------------------------------- *)

\* C5: whenever an attempted article fetch returns a non-success status or
\* raises a transport failure, idx.err is written with the status or the
\* error, no idx.html exists for that index after the attempt, no exception
\* escapes and the run goes on to the next article, in every mode.
C5_FailuresRecorded ==
    [][(ArticleStep /\ io' \in {"status", "exception"}) =>
          LET dir == CurArticle.dir
              idx == CurArticle.idx
          IN  /\ ErrFile(idx) \in DOMAIN story'[dir]
              /\ story'[dir][ErrFile(idx)] = io'
              /\ HtmlFile(idx) \notin DOMAIN story'[dir]
              /\ last'.result # "aborted"
              /\ cur.i < Len(ArticleItems) => (pc' = "articles" /\ cur'.i = cur.i + 1)
      ]_vars

\* the raw page the article-extraction loop is at, and whether its extraction
\* is attempted and fails
CurPage == ParseItems[cur.i]
ExtractionFails ==
    /\ OutputFile(CurPage.f) \notin DOMAIN story[CurPage.dir]
    /\ ~story[CurPage.dir][CurPage.f].good

\* the error log of a raw page <idx>.html: <idx>.err in the same directory
ErrLog(f) == SubSeq(f, 1, Len(f) - 1) \o <<".err">>

\* C6: when content extraction of a persisted idx.html fails, the error is
\* appended to <story>/<idx>.err inside the story directory and no idx.json
\* is written for it, so that the next extraction pass attempts it again.
C6_ExtractionFailureLogged ==
    [][(ParseArticleStep /\ ExtractionFails) =>
          LET dir == CurPage.dir
              log == ErrLog(CurPage.f)
          IN  /\ log \in DOMAIN story'[dir]
              /\ log \in DOMAIN story[dir] => story'[dir][log] # story[dir][log]
              /\ OutputFile(CurPage.f) \notin DOMAIN story'[dir]
      ]_vars

\* C7: a failure while fetching or extracting one item (a story fetch that
\* raises, a story extraction that fails on its markup or finds no story.html,
\* an article extraction that fails) never stops the stage: the run does not
\* abort and goes on to the later items.
C7_FailureIsolation ==
    [][(pc \in {"stories", "parse_stories", "articles", "parse_articles"}) =>
          (last'.result # "aborted")]_vars

(* ------------------------------ the dataset ---------------------------- *)

\* the extraction artifact of position i of an article list
JsonFile(i) == Str(i) \o <<".json">>

\* the date prefix of a story directory's name, and the title its story page
\* carries
DatePrefix(dir) == Split(dir, ".")[1]
TitleOf(dir) == <<"/", "s", "/">> \o Split(dir, ".")[2]

\* the lines of a dataset that are records of the directory
RecordsOf(lines, dir) ==
    {k \in 1..Len(lines) : lines[k].date = DatePrefix(dir) /\ lines[k].title = TitleOf(dir)}

\* the positions of the directory's article list that have an extraction
\* artifact
Extracted(dir) ==
    {i \in 0..world.counts : JsonFile(i) \in DOMAIN story[dir]}

\* the articles a record is to hold: at each extracted position i, the
\* extraction of the page of ArticleRef i's url with ArticleRef i's side,
\* source and url
ExpectedArticles(dir) ==
    LET refs == story[dir][StoryJson].articles
    IN  [i \in Extracted(dir) |->
            Merged(ParseArticle([url |-> refs[i + 1].url, good |-> TRUE]), refs[i + 1])]

\* C8: for every story and every position i of its article list (lists of ten
\* or more articles included), the compiled record has an entry at key i
\* exactly when an extraction artifact for position i exists, and the entry
\* combines the extraction of the page fetched from ArticleRef i's url with
\* the side, source and url of ArticleRef i.
C8_PositionalMerge ==
    [][(Compile /\ storyRoot) =>
          \A dir \in DOMAIN story :
              (StoryJson \in DOMAIN story[dir] /\ Extracted(dir) # {}) =>
                  \E k \in RecordsOf(jsonl'.lines, dir) :
                      jsonl'.lines[k].articles = ExpectedArticles(dir)
      ]_vars

\* C9: compile_dataset emits exactly one record for a story directory if and
\* only if the directory has story.json and at least one extraction artifact
\* idx.json; directories without story.json and stories without extraction
\* artifacts contribute no record and cause no error.
C9_Membership ==
    [][(Compile /\ storyRoot) =>
          /\ last'.result = "done"
          /\ jsonl'.exists
          /\ \A dir \in DOMAIN story :
                Cardinality(RecordsOf(jsonl'.lines, dir)) =
                    IF StoryJson \in DOMAIN story[dir] /\ Extracted(dir) # {} THEN 1 ELSE 0
          /\ \A k \in 1..Len(jsonl'.lines) :
                \E dir \in DOMAIN story : k \in RecordsOf(jsonl'.lines, dir)
      ]_vars

\* a dataset of one record was compiled from a working directory that also
\* holds a story without extraction artifacts or a directory without
\* story.json
C9_Witness ==
    /\ pc = "idle" /\ last = [stage |-> "compile", result |-> "done"]
    /\ Len(jsonl.lines) = 1
    /\ \E dir \in DOMAIN story :
          StoryJson \notin DOMAIN story[dir] \/ Extracted(dir) = {}

\* C10: the records written to allsides.jsonl are non-decreasing by date,
\* each record's date being the prefix of its story directory's name before
\* the first '.', whatever the order in which the directories are enumerated.
C10_Ordered ==
    jsonl.exists =>
        /\ \A k \in 1..(Len(jsonl.lines) - 1) :
              ~StrLess(jsonl.lines[k + 1].date, jsonl.lines[k].date)
        /\ \A k \in 1..Len(jsonl.lines) :
              \E dir \in DOMAIN story : k \in RecordsOf(jsonl.lines, dir)

\* a dataset of stories of different dates was compiled from directories
\* enumerated with the later date first
C10_Witness ==
    /\ world.rev
    /\ jsonl.exists /\ Len(jsonl.lines) >= 2
    /\ StrLess(jsonl.lines[1].date, jsonl.lines[2].date)

(* ----------------------- stories without coverage ---------------------- *)

\* the directory holds a story page without featured-coverage container
NoCoverage(st, dir) ==
    /\ StoryHtml \in DOMAIN st[dir]
    /\ st[dir][StoryHtml].kind = "nocoverage"

\* C11: a story whose page has no featured-coverage container is skipped by
\* story extraction: as long as its page is that one its directory holds
\* nothing but story.html (no story.json, no .err, no article of it), it
\* has no record in the compiled dataset, and the skip does not stop the
\* extraction of the other stories.
C11_NoCoverageSkipped ==
    [][/\ \A dir \in DOMAIN story :
            (/\ NoCoverage(story, dir) /\ StoryJson \notin DOMAIN story[dir]
             /\ NoCoverage(story', dir)) =>
                /\ DOMAIN story'[dir] = {StoryHtml}
                /\ (Compile /\ storyRoot) => RecordsOf(jsonl'.lines, dir) = {}
       /\ (/\ ParseStoryStep
           /\ NoCoverage(story, StoryDirs[cur.i])
           /\ StoryJson \notin DOMAIN story[StoryDirs[cur.i]]) =>
              /\ last'.result # "aborted"
              /\ cur.i < Len(StoryDirs) => (pc' = "parse_stories" /\ cur'.i = cur.i + 1)
      ]_vars

\* a dataset was compiled from a story without coverage, which has nothing
\* but its page, and another story, which has its record
C11_Witness ==
    /\ pc = "idle" /\ last = [stage |-> "compile", result |-> "done"]
    /\ Len(jsonl.lines) = 1
    /\ \E d1 \in DOMAIN story, d2 \in DOMAIN story :
          /\ NoCoverage(story, d1) /\ DOMAIN story[d1] = {StoryHtml}
          /\ StoryJson \in DOMAIN story[d2]
          /\ StrLess(d1, d2)

(* --------------------------- politeness delay -------------------------- *)

\* C12: every network request is followed by the politeness delay before the
\* next request of the run is issued, in the three fetch stages: a request is
\* issued only when the run has slept since its previous one.
C12_Politeness == [][(io' # "none") => slept]_vars

(* -------------------------- story directory key ------------------------ *)

\* the last path segment of a url
LastSegment(url) == Split(url, "/")[Len(Split(url, "/"))]

\* C13: for every roundup, the story directory used by download_stories is
\* date + "." + the last path segment of the roundup's url, and two roundups
\* that differ in date or in url never map to the same directory.
C13_StoryDirKey ==
    [][StoryStep =>
          LET rs == ReadRoundups
              r  == rs[cur.i]
          IN  /\ (r[4] \o <<".">> \o LastSegment(r[2])) \in DOMAIN story'
              /\ \A k \in 1..Len(rs), m \in 1..Len(rs) :
                    (rs[k][4] # rs[m][4] \/ rs[k][2] # rs[m][2]) =>
                        StoryDirName(rs[k]) # StoryDirName(rs[m])
      ]_vars

(* ------------------------------ pagination ----------------------------- *)

\* C14: if page 0 of the listing has no "last page" control, the roundup
\* collection run aborts with a failure, fetches no further page and writes
\* no roundups.tsv (an existing one is left unchanged).
C14_PaginationFatal ==
    [][(RoundupFirst /\ io' = "page" /\ faults' # faults) =>
          /\ pc' = "idle" /\ last' = [stage |-> "roundups", result |-> "aborted"]
          /\ net' = 1
          /\ DOMAIN roundupFiles' = DOMAIN roundupFiles \cup {Str(0)}
          /\ tsv' = tsv
      ]_vars

\* a roundup run over an existing index got page 0 and aborted
C14_Witness ==
    /\ pc = "idle" /\ last = [stage |-> "roundups", result |-> "aborted"]
    /\ io = "page" /\ net = 1
    /\ tsv.exists

(* --------------------------- the roundup index ------------------------- *)

\* the dated rows of the page files `names`, as (file, position) pairs
DatedRows(names) ==
    {q \in UNION {{<<n, k>> : k \in 1..Len(roundupFiles[n].rows)} : n \in names} :
        LET r == roundupFiles[q[1]].rows[q[2]] IN Len(r) # 0 /\ r[4] # <<>>}

\* roundups.tsv is made of the dated rows of the page files `names`: every
\* such row has as many entries as it occurs in the files, there is no other
\* entry, none has an empty date, and the entries are in date order
IndexOf(index, names) ==
    LET lines  == index.lines
        rowAt(q) == Join(roundupFiles[q[1]].rows[q[2]], TAB)
    IN  /\ index.exists
        /\ \A q \in DatedRows(names) :
              Cardinality({k \in 1..Len(lines) : lines[k] = rowAt(q)})
                  = Cardinality({o \in DatedRows(names) : rowAt(o) = rowAt(q)})
        /\ \A k \in 1..Len(lines) : \E q \in DatedRows(names) : lines[k] = rowAt(q)
        /\ \A k \in 1..Len(lines) :
              LET f == Split(lines[k], TAB) IN Len(f) = 4 /\ f[4] # <<>>
        /\ \A k \in 1..(Len(lines) - 1) :
              ~StrLess(Split(lines[k + 1], TAB)[4], Split(lines[k], TAB)[4])

\* C15 as stated: after a completed roundup collection run, roundups.tsv has
\* one entry for each dated row of the pages 0..lastPage fetched in that run
\* and no other, none with an empty date, in non-decreasing date order.
C15_IndexOfFetchedPages ==
    [][RoundupIndex => IndexOf(tsv', {Str(i) : i \in 0..cur.j})]_vars

\* C15 amended: after a completed roundup collection run, roundups.tsv has
\* one entry for each dated row of every page file of the roundups directory
\* (the pages fetched in that run and the pages an earlier run left at
\* higher indexes) and no other, none with an empty date, in non-decreasing
\* date order, whatever the order in which the files are enumerated.
C15_IndexOfDirectory ==
    [][RoundupIndex => IndexOf(tsv', DOMAIN roundupFiles)]_vars

\* a run over a listing of one page has completed in a directory that holds
\* page 1 of an earlier run, the files being enumerated with page 1 first
C15_Witness ==
    /\ pc = "idle" /\ last = [stage |-> "roundups", result |-> "done"]
    /\ net = 1
    /\ Str(1) \in DOMAIN roundupFiles
    /\ world.rev
    /\ Len(tsv.lines) >= 2

(* --------------------------- partial artifacts ------------------------- *)

\* story.html of the directory holds a part of the page only
Truncated(st, dir) ==
    /\ dir \in DOMAIN st
    /\ StoryHtml \in DOMAIN st[dir]
    /\ st[dir][StoryHtml].kind = "truncated"

\* C16: if the process is interrupted while persisting an artifact, the
\* artifact is absent or complete at its final path, so that a restarted run
\* never treats a partial file as a completed item and skips it.
C16_NoPartialArtifact ==
    [][/\ \A dir \in DOMAIN story' : ~Truncated(story', dir)
       /\ (StoryStep /\ Truncated(story, StoryDirName(ReadRoundups[cur.i]))) => io' # "none"
      ]_vars

(* ------------------------- story record stability ---------------------- *)

\* the story record of the directory is in st2 what it is in st1
SameRecord(st1, st2, dir) ==
    /\ dir \in DOMAIN st2
    /\ StoryJson \in DOMAIN st2[dir]
    /\ st2[dir][StoryJson] = st1[dir][StoryJson]

\* C17: once story.json has been persisted for a story, no step of a run of
\* any stage without forceRefetch (story fetch, story extraction, article
\* fetch, article extraction, compile) rewrites or changes it: the article
\* list, and with it the index-to-article mapping, stays what it was.
C17_StoryRecordStable ==
    [][~flags.redownload =>
         \A dir \in DOMAIN story :
             StoryJson \in DOMAIN story[dir] => SameRecord(story, story', dir)]_vars

\* a second story extraction run has ended over a directory that holds the
\* record the first one wrote
C17_Witness ==
    /\ pc = "idle" /\ last = [stage |-> "parse_stories", result |-> "done"]
    /\ rep = "repeat"
    /\ \E dir \in DOMAIN story :
          /\ StoryJson \in DOMAIN story[dir]
          /\ story[dir][StoryJson] = StoryOf(story[dir][StoryHtml])

(* ------------------------- artifacts accumulate ------------------------ *)

\* the artifact paths under the story root: (directory, file name) pairs
ArtifactPaths(st) ==
    UNION {{<<dir, f>> : f \in DOMAIN st[dir]} : dir \in DOMAIN st}

\* C18: across the runs of any stages in any modes, the set of artifact
\* paths under the story root (story.html, story.json, idx.html, idx.err,
\* idx.json) never loses an element, and compilation changes nothing under
\* the story root.
C18_OnlyAccumulate ==
    [][/\ ArtifactPaths(story) \subseteq ArtifactPaths(story')
       /\ storyRoot => storyRoot'
       /\ (pc' = "idle" /\ last'.stage = "compile" /\ Compile) =>
              (story' = story /\ storyRoot' = storyRoot)]_vars

\* a dataset was compiled over a story directory that holds every kind of
\* artifact, the page of an article together with the error marker that a
\* failed forced refetch left beside it
C18_Witness ==
    /\ pc = "idle" /\ last = [stage |-> "compile", result |-> "done"]
    /\ \E dir \in DOMAIN story :
          {StoryHtml, StoryJson, HtmlFile(0), ErrFile(0), JsonFile(0)} \subseteq DOMAIN story[dir]

(* ---------------------- extraction and its page ------------------------ *)

\* C19: in every reachable state, for every story and every index i (article
\* lists of any length), if i.json exists then i.html exists in the same
\* story directory and i.json is the extraction of that i.html, never of
\* another index's page.
C19_ExtractionOfOwnPage ==
    \A dir \in DOMAIN story :
        \A i \in 0..LongList :
            JsonFile(i) \in DOMAIN story[dir] =>
                /\ HtmlFile(i) \in DOMAIN story[dir]
                /\ story[dir][JsonFile(i)] = ParseArticle(story[dir][HtmlFile(i)])

(* --------------------------- retry converges --------------------------- *)

\* C20: after an article fetch run with retry_errors in which every attempted
\* fetch succeeded, every article that had an error marker counts as fetched:
\* a further run with retry_errors issues no request for an article whose
\* page is stored.
C20_RetryConverges ==
    [][(ArticleStep /\ rep = "reretry" /\ CurHasHtml) => io' = "none"]_vars

====
